---- MODULE Spec2Model ----
(***************************************************************************)
(* Model of sensor-program/src/main.rs: the MS5611 acquisition and         *)
(* compensation (read_calibration_word, read_and_calculate_ms5611), the    *)
(* DS18B20 reader, the JSON line logger and the poll loop of main.         *)
(***************************************************************************)
EXTENDS Integers, Sequences, FiniteSets, TLC

(***************************************************************************)
(* Signed integers of arbitrary size.  The model checker's own integers    *)
(* are 32 bits wide, the program computes in i64, so an integer is kept as *)
(* a sign and a little-endian sequence of 15-bit limbs without leading     *)
(* zero limbs.  Zero is [neg |-> FALSE, mag |-> << >>].                     *)
(***************************************************************************)
Limb == 2^15

\* the magnitudes: sequences of limbs.  The operations on them are functions,
\* so that an argument is a value by the time the operation uses it.
Mag == Seq(Nat)

MagNorm[m \in Mag] ==
    IF m = << >> THEN << >>
    ELSE IF m[Len(m)] = 0 THEN MagNorm[SubSeq(m, 1, Len(m) - 1)]
    ELSE m

MagOfNat[n \in Nat] ==
    IF n = 0 THEN << >> ELSE <<n % Limb>> \o MagOfNat[n \div Limb]

MagLimb(m, i) == IF i <= Len(m) THEN m[i] ELSE 0

MagCmpFrom[a \in Mag, b \in Mag, i \in Nat] ==
    IF i = 0 THEN 0
    ELSE IF MagLimb(a, i) < MagLimb(b, i) THEN -1
    ELSE IF MagLimb(a, i) > MagLimb(b, i) THEN 1
    ELSE MagCmpFrom[a, b, i - 1]

MagCmp[a \in Mag, b \in Mag] ==
    MagCmpFrom[a, b, IF Len(a) > Len(b) THEN Len(a) ELSE Len(b)]

MagAddFrom[a \in Mag, b \in Mag, i \in Nat, carry \in Nat] ==
    IF i > Len(a) /\ i > Len(b)
    THEN (IF carry = 0 THEN << >> ELSE <<carry>>)
    ELSE LET s == MagLimb(a, i) + MagLimb(b, i) + carry
         IN  <<s % Limb>> \o MagAddFrom[a, b, i + 1, s \div Limb]

MagAdd[a \in Mag, b \in Mag] == MagNorm[MagAddFrom[a, b, 1, 0]]

\* a - b for a >= b
MagSubFrom[a \in Mag, b \in Mag, i \in Nat, borrow \in Nat] ==
    IF i > Len(a) THEN << >>
    ELSE LET s == MagLimb(a, i) - MagLimb(b, i) - borrow
         IN  IF s < 0 THEN <<s + Limb>> \o MagSubFrom[a, b, i + 1, 1]
             ELSE <<s>> \o MagSubFrom[a, b, i + 1, 0]

MagSub[a \in Mag, b \in Mag] == MagNorm[MagSubFrom[a, b, 1, 0]]

\* a * d for one limb d
MagMulLimbFrom[a \in Mag, d \in Nat, i \in Nat, carry \in Nat] ==
    IF i > Len(a)
    THEN (IF carry = 0 THEN << >> ELSE <<carry>>)
    ELSE LET p == a[i] * d + carry
         IN  <<p % Limb>> \o MagMulLimbFrom[a, d, i + 1, p \div Limb]

MagMul[a \in Mag, b \in Mag] ==
    IF b = << >> THEN << >>
    ELSE MagAdd[MagNorm[MagMulLimbFrom[a, b[1], 1, 0]],
                MagNorm[<<0>> \o MagMul[a, Tail(b)]]]

\* floor(a / d) for 0 < d <= Limb, from the most significant limb down
MagDivSmallFrom[a \in Mag, d \in Nat, i \in Nat, rem \in Nat] ==
    IF i = 0 THEN << >>
    ELSE LET cur == rem * Limb + a[i]
         IN  MagDivSmallFrom[a, d, i - 1, cur % d] \o <<cur \div d>>

MagDivSmall[a \in Mag, d \in Nat] == MagNorm[MagDivSmallFrom[a, d, Len(a), 0]]

\* floor(a / 2^k)
MagShr[a \in Mag, k \in Nat] ==
    IF k = 0 THEN a
    ELSE IF k >= 15 THEN MagShr[MagDivSmall[a, Limb], k - 15]
    ELSE MagDivSmall[a, 2^k]

\* 2^k
MagPow2[k \in Nat] == IF k >= 15 THEN <<0>> \o MagPow2[k - 15] ELSE <<2^k>>

\* a mod 2^k
MagModPow2[a \in Mag, k \in Nat] == MagSub[a, MagMul[MagShr[a, k], MagPow2[k]]]

\* the integers
Z == [neg : BOOLEAN, mag : Mag]

ZMk[neg \in BOOLEAN, mag \in Mag] == [neg |-> neg /\ mag # << >>, mag |-> mag]
Z0 == ZMk[FALSE, << >>]
ZOfInt[n \in Int] ==
    IF n < 0 THEN ZMk[TRUE, MagOfNat[-n]] ELSE ZMk[FALSE, MagOfNat[n]]
ZNeg[x \in Z] == ZMk[~x.neg, x.mag]
ZAbs[x \in Z] == ZMk[FALSE, x.mag]
ZAdd[x \in Z, y \in Z] ==
    IF x.neg = y.neg THEN ZMk[x.neg, MagAdd[x.mag, y.mag]]
    ELSE IF MagCmp[x.mag, y.mag] >= 0 THEN ZMk[x.neg, MagSub[x.mag, y.mag]]
    ELSE ZMk[y.neg, MagSub[y.mag, x.mag]]
ZSub[x \in Z, y \in Z] == ZAdd[x, ZNeg[y]]
ZMul[x \in Z, y \in Z] == ZMk[x.neg # y.neg, MagMul[x.mag, y.mag]]
ZPow2[k \in Nat] == ZMk[FALSE, MagPow2[k]]
ZCmp[x \in Z, y \in Z] ==
    IF x.neg # y.neg THEN (IF x.neg THEN -1 ELSE 1)
    ELSE IF x.neg THEN MagCmp[y.mag, x.mag]
    ELSE MagCmp[x.mag, y.mag]
ZLt(x, y) == ZCmp[x, y] < 0
ZLe(x, y) == ZCmp[x, y] <= 0


(***************************************************************************)
(* Rust integer arithmetic.  The compensation is computed in i64           *)
(* (main.rs:54-58).  An operation whose exact result leaves the type's     *)
(* range either panics (overflow checks on) or wraps in two's complement   *)
(* (overflow checks off); both the wrapped value and the fact that the     *)
(* operation overflowed are kept.                                          *)
(***************************************************************************)
IntBits == 64

\* x reduced to the two's-complement range of `bits` bits
WrapMag[neg \in BOOLEAN, m \in Mag, bits \in Nat] ==
    IF neg /\ m # << >> THEN MagSub[MagPow2[bits], m] ELSE m

WrapSigned[u \in Mag, bits \in Nat] ==
    IF MagCmp[u, MagPow2[bits - 1]] >= 0
    THEN ZMk[TRUE, MagSub[MagPow2[bits], u]]
    ELSE ZMk[FALSE, u]

WrapTo[x \in Z, bits \in Nat] ==
    WrapSigned[WrapMag[x.neg, MagModPow2[x.mag, bits], bits], bits]

\* the compensation done in a type of half the width (i32 instead of i64)
Wrap_i32(x) == WrapTo[x, 32]

Wrap(x) == WrapTo[x, IntBits]

\* a division that rounds toward minus infinity (an arithmetic shift)
DivFloorPow2[x \in Z, k \in Nat] ==
    IF x.neg /\ MagModPow2[x.mag, k] # << >>
    THEN ZMk[TRUE, MagAdd[MagShr[x.mag, k], <<1>>]]
    ELSE ZMk[x.neg, MagShr[x.mag, k]]

\* Rust `/` on signed integers rounds toward zero; the divisor is 1 << k
DivPow2[x \in Z, k \in Nat] == ZMk[x.neg, MagShr[x.mag, k]]

(***************************************************************************)
(* An i64 value in flight is [v, o]: the value, and whether an operation   *)
(* on the way to it overflowed.                                            *)
(***************************************************************************)
I64 == [v : Z, o : BOOLEAN]

\* the result of an operation on a and b whose exact value is x
i64_of[a \in I64, b \in I64, x \in Z] ==
    [v |-> Wrap(x), o |-> a.o \/ b.o \/ Wrap(x) # x]

\* `x as i64` of a u32, and an integer literal
as_i64(n) == [v |-> ZOfInt[n], o |-> FALSE]
\* the literal 1 << k
shl1(k) == [v |-> ZPow2[k], o |-> FALSE]

i64_mul[a \in I64, b \in I64] == i64_of[a, b, ZMul[a.v, b.v]]
i64_add[a \in I64, b \in I64] == i64_of[a, b, ZAdd[a.v, b.v]]
i64_sub[a \in I64, b \in I64] == i64_of[a, b, ZSub[a.v, b.v]]

i64_quot[a \in I64, q \in Z] == [v |-> q, o |-> a.o]

\* `a / (1 << k)` with the quotient rounded toward minus infinity
i64_div_floor(a, k) == i64_quot[a, DivFloorPow2[a.v, k]]

\* `a / (1 << k)`
i64_div(a, k) == i64_quot[a, DivPow2[a.v, k]]

(***************************************************************************)
(* The compensation of main.rs:54-58, one operator for each local.         *)
(***************************************************************************)
\* main.rs:54
comp_d_t(d2v, cw) == i64_sub[as_i64(d2v), i64_mul[as_i64(cw[5]), as_i64(256)]]
\* main.rs:55
comp_temp(d_t, cw) ==
    i64_add[as_i64(2000), i64_div(i64_mul[d_t, as_i64(cw[6])], 23)]
\* main.rs:56
comp_off(d_t, cw) ==
    i64_add[i64_mul[as_i64(cw[2]), shl1(16)],
            i64_div(i64_mul[as_i64(cw[4]), d_t], 7)]
\* main.rs:57
comp_sens(d_t, cw) ==
    i64_add[i64_mul[as_i64(cw[1]), shl1(15)],
            i64_div(i64_mul[as_i64(cw[3]), d_t], 8)]
\* main.rs:58, the inner quotient (d1 as i64 * sens) / (1 << 21)
comp_press_q(d1v, sens) == i64_div(i64_mul[as_i64(d1v), sens], 21)
\* main.rs:58
comp_press(q, off) == i64_div(i64_sub[q, off], 15)

\* the locals after main.rs:58 (q: the inner quotient of main.rs:58);
\* ovf: some operation overflowed
comp_locals[d_t \in I64, temp \in I64, off \in I64, sens \in I64, q \in I64, press \in I64] ==
    [d_t |-> d_t.v, temp |-> temp.v, off |-> off.v, sens |-> sens.v,
     q |-> q.v, press |-> press.v,
     ovf |-> d_t.o \/ temp.o \/ off.o \/ sens.o \/ press.o]

\* main.rs:54-58 in the order of the statements
Compensation(d1v, d2v, cw) ==
    LET d_t   == comp_d_t(d2v, cw)
        temp  == comp_temp(d_t, cw)
        off   == comp_off(d_t, cw)
        sens  == comp_sens(d_t, cw)
        q     == comp_press_q(d1v, sens)
        press == comp_press(q, off)
    IN  comp_locals[d_t, temp, off, sens, q, press]

\* `x as f64 / 100.0`: the double nearest to x/den, kept as the fraction
F64Div(x, den) == [num |-> x, den |-> den]


(***************************************************************************)
(* Bit operations of the byte combinations (main.rs:27, 39, 45).           *)
(***************************************************************************)
RECURSIVE BitOr(_, _)
BitOr(a, b) ==
    IF a = 0 THEN b
    ELSE IF b = 0 THEN a
    ELSE (IF a % 2 = 1 \/ b % 2 = 1 THEN 1 ELSE 0) + 2 * BitOr(a \div 2, b \div 2)

\* `(x as uN) << k`: bits shifted out of the N-bit type are lost
Shl(x, k, width) == (x % 2^(width - k)) * 2^k

\* the two bytes combined low byte first (little-endian)
Word16_le(b) == BitOr(Shl(b[2], 8, 16), b[1])

\* ((buf[0] as u16) << 8) | buf[1] as u16
Word16(b) == BitOr(Shl(b[1], 8, 16), b[2])

\* the three bytes combined low byte first (little-endian)
Word24_le(b) == BitOr(BitOr(Shl(b[3], 16, 32), Shl(b[2], 8, 32)), b[1])

\* ((buf[0] as u32) << 16) | ((buf[1] as u32) << 8) | buf[2] as u32
Word24(b) == BitOr(BitOr(Shl(b[1], 16, 32), Shl(b[2], 8, 32)), b[3])

(***************************************************************************)
(* Program constants.                                                      *)
(***************************************************************************)
I2C_BUS == 1
MS5611_ADDR == 119          \* 0x77
CMD_CONVERT_D1 == 72        \* 0x48
CMD_CONVERT_D2 == 88        \* 0x58
CMD_ADC_READ == 0           \* 0x00
CONVERSION_DELAY_MS == 50
CALIBRATION_DELAY_MS == 10
POLL_INTERVAL_MS == 5000
\* 0xA2, 0xA4, 0xA6, 0xA8, 0xAA, 0xAC, in the order of main.rs:47-52
CalAddrs == <<162, 164, 166, 168, 170, 172>>

\* the address computed from the index, starting one word too low (0xA0)
CalAddr_from_base(k) == 160 + 2 * (k - 1)

CalAddr(k) == CalAddrs[k]

(***************************************************************************)
(* The environment: what the device and the files can answer.              *)
(***************************************************************************)
\* bound on the number of poll iterations explored
MaxCycles == 2

Bytes2(w) == <<w \div 256, w % 256>>
Bytes3(v) == <<v \div 65536, (v \div 256) % 256, v % 256>>

\* A device: its calibration PROM and the results its ADC delivers for the
\* pressure and the temperature conversion.  The first is the data sheet's
\* example, the second has the largest calibration words and pressure and
\* the smallest temperature (dT < 0).
DeviceSet ==
    { [prom |-> <<40127, 36924, 23317, 23282, 33464, 28312>>,
       adc1 |-> 9085466, adc2 |-> 8569150],
      [prom |-> <<65535, 65535, 65535, 65535, 65535, 65535>>,
       adc1 |-> 16777215, adc2 |-> 0] }

\* Option and Result values: None is << >>, Some(x) is <<x>>
None == << >>
Some(x) == <<x>>
Ok(x) == [ok |-> TRUE, val |-> <<x>>]
Err == [ok |-> FALSE, val |-> << >>]


(***************************************************************************)
(* read_temperature_ds18b20 (main.rs:66-79) on a report given as a         *)
(* sequence of characters; None stands for a file that cannot be opened    *)
(* or read.                                                                *)
(***************************************************************************)
StartsAt(s, i, pat) ==
    /\ i + Len(pat) - 1 <= Len(s)
    /\ \A j \in 1..Len(pat) : s[i + j - 1] = pat[j]

\* str::contains
Contains(s, pat) == \E i \in 1..Len(s) : StartsAt(s, i, pat)

\* str::find: the first position of pat (1-based), 0 when there is none
Find(s, pat) ==
    IF Contains(s, pat)
    THEN CHOOSE i \in 1..Len(s) :
            StartsAt(s, i, pat) /\ \A j \in 1..(i - 1) : ~StartsAt(s, j, pat)
    ELSE 0

IsWhitespace(ch) == ch \in {" ", "\n", "\t", "\r"}

\* a text: a sequence of characters
Text == Seq(STRING)

\* str::trim
Trim[s \in Text] ==
    IF s = << >> THEN s
    ELSE IF IsWhitespace(s[1]) THEN Trim[Tail(s)]
    ELSE IF IsWhitespace(s[Len(s)]) THEN Trim[SubSeq(s, 1, Len(s) - 1)]
    ELSE s

Digits == <<"0", "1", "2", "3", "4", "5", "6", "7", "8", "9">>
IsDigit(ch) == \E d \in 1..10 : Digits[d] = ch
DigitVal(ch) == (CHOOSE d \in 1..10 : Digits[d] = ch) - 1

DecimalVal[s \in Text] ==
    IF s = << >> THEN 0
    ELSE 10 * DecimalVal[SubSeq(s, 1, Len(s) - 1)] + DigitVal(s[Len(s)])

\* str::parse::<f32> on an optionally signed run of decimal digits; any other
\* text of the reports below is rejected by Rust's float grammar as well
ParseF32[s \in Text] ==
    LET signed == s # << >> /\ s[1] \in {"-", "+"}
        body   == IF signed THEN Tail(s) ELSE s
    IN  IF body # << >> /\ \A i \in 1..Len(body) : IsDigit(body[i])
        THEN Some(IF signed /\ s[1] = "-" THEN -DecimalVal[body] ELSE DecimalVal[body])
        ELSE None

\* an f32 quotient n/den, kept as the fraction; every zero is the same float
F32Div(n, den) == IF n = 0 THEN [num |-> 0, den |-> 1] ELSE [num |-> n, den |-> den]
\* the literal 0.0
F32Zero == [num |-> 0, den |-> 1]

\* the reader without the test for "YES": the value is parsed whatever the
\* CRC line says
read_temperature_ds18b20_unchecked(report) ==
    IF report = None THEN Err
    ELSE IF Find(report[1], <<"t", "=">>) = 0 THEN Err
    ELSE IF ParseF32[Trim[SubSeq(report[1], Find(report[1], <<"t", "=">>) + 2,
                                 Len(report[1]))]] = None THEN Err
    ELSE Ok(F32Div(ParseF32[Trim[SubSeq(report[1], Find(report[1], <<"t", "=">>) + 2,
                                        Len(report[1]))]][1], 1000))

read_temperature_ds18b20(report) ==
    IF report = None THEN Err
    ELSE LET content == report[1]
         IN  IF Contains(content, <<"Y", "E", "S">>)
             THEN IF Find(content, <<"t", "=">>) = 0 THEN Err
                  ELSE LET temp_pos == Find(content, <<"t", "=">>) + 2
                           temp_str == Trim[SubSeq(content, temp_pos, Len(content))]
                           temp_raw == ParseF32[temp_str]
                       IN  IF temp_raw = None THEN Err
                           ELSE Ok(F32Div(temp_raw[1], 1000))
             ELSE Err

\* the reports a w1_slave file can hold
ReportOk == <<"Y", "E", "S", "\n", "t", "=", "2", "3", "4", "5", "6", "\n">>
ReportCrcBad == <<"N", "O", "\n", "t", "=", "2", "3", "4", "5", "6", "\n">>
ReportNoMarker == <<"Y", "E", "S", "\n">>
ReportGarbled == <<"Y", "E", "S", "\n", "t", "=", "2", "x", "\n">>
Reports == {None, Some(ReportOk), Some(ReportCrcBad), Some(ReportNoMarker),
            Some(ReportGarbled)}


(***************************************************************************)
(* State.                                                                  *)
(***************************************************************************)
VARIABLES
    pc,               \* the statement of main.rs the program is about to execute
    cycle,            \* number of the current iteration of the loop of main
    i2c,              \* the I2c handle of read_and_calculate_ms5611: None, or
                      \* Some([bus, addr]) while it is open
    ops,              \* the bus operations and delays issued in this iteration
    buf,              \* the 3-byte buffer of main.rs:37
    cal_buf,          \* the 2-byte buffer of read_calibration_word
    d1, d2,           \* Option: the raw conversions once read
    calIdx,           \* which of c1..c6 is being read (0: none)
    c,                \* the calibration words read so far, c1 first
    calc,             \* Option: the locals d_t .. press once computed
    res,              \* outcome of read_and_calculate_ms5611 in this iteration:
                      \* "pending", "ok" or "err"
    ms5611_data,      \* Option: the value bound by the Ok arm of main
    ds1, ds2,         \* Option: the Result of each read_temperature_ds18b20
    ds18b20_1_temp, ds18b20_2_temp,   \* Option: the locals of main.rs:106, 114
    content,          \* Option: the String of main.rs:68 once the file is read;
                      \* None before, and when the file could not be opened or read
    sensor_data,      \* Option: the record of main.rs:125 while it is alive
    fh,               \* log_data_to_json holds its File open
    json_data,        \* Option: the string of main.rs:87
    log_res,          \* Option: the Result log_data_to_json returned
    errs,             \* the error lines printed in this iteration
    file,             \* sensor_data.json: None when absent, else Some(content),
                      \* the content a sequence of pieces
    dev,              \* the device on the bus
    lastSleep,        \* duration of the latest thread::sleep, in ms
    fileAtStart,      \* history: file at the start of this iteration
    file0,            \* history: file when the program started
    nLogged           \* history: iterations whose acquisition and log write both succeeded

busVars == <<i2c, ops>>
msLocals == <<buf, cal_buf, d1, d2, calIdx, c, calc>>
mainLocals == <<res, ms5611_data, ds1, ds2, ds18b20_1_temp, ds18b20_2_temp, sensor_data, errs>>
thermLocals == <<content>>
logLocals == <<fh, json_data, log_res>>
envVars == <<dev>>
history == <<cycle, fileAtStart, file0, nLogged>>
vars == <<pc, busVars, msLocals, mainLocals, thermLocals, logLocals, file, envVars,
          lastSleep, history>>

Op(op, arg, ok) == [op |-> op, arg |-> arg, ok |-> ok]

\* pieces of the log file: a line's text left by an earlier run ("old"), the
\* JSON text of a record ("json"), some proper prefix of such a text
\* ("part"), and the line terminator written by writeln! ("nl")
Piece(kind, body) == [kind |-> kind, body |-> body]
NL == Piece("nl", None)
OldLine == Piece("old", None)

\* serde_json::to_string of SensorData: the fields in declaration order
to_string(sd) ==
    << <<"ms5611", << <<"d1", sd.ms5611.d1>>, <<"d2", sd.ms5611.d2>>,
                      <<"temperature", sd.ms5611.temperature>>,
                      <<"pressure", sd.ms5611.pressure>> >> >>,
       <<"ds18b20_1", sd.ds18b20_1>>,
       <<"ds18b20_2", sd.ds18b20_2>> >>

Content(f) == IF f = None THEN << >> ELSE f[1]
LineCount(f) == Cardinality({i \in 1..Len(Content(f)) : Content(f)[i].kind = "nl"})
IsPrefix(a, b) == Len(a) <= Len(b) /\ SubSeq(b, 1, Len(a)) = a

\* the word the device answers for the PROM address written last
DevicePromRead(addr) ==
    IF \E k \in 1..6 : CalAddrs[k] = addr
    THEN dev.prom[CHOOSE k \in 1..6 : CalAddrs[k] = addr]
    ELSE 0

\* the ADC result the device answers: that of the conversion triggered last
\* (0 when none was triggered)
RECURSIVE DeviceAdcRead(_)
DeviceAdcRead(trace) ==
    IF trace = << >> THEN 0
    ELSE LET last == trace[Len(trace)]
         IN  IF last.op = "write" /\ last.ok /\ last.arg = CMD_CONVERT_D1 THEN dev.adc1
             ELSE IF last.op = "write" /\ last.ok /\ last.arg = CMD_CONVERT_D2 THEN dev.adc2
             ELSE DeviceAdcRead(SubSeq(trace, 1, Len(trace) - 1))

InitFiles == {None, Some(<<OldLine, NL>>)}

TypeOK ==
    /\ pc \in {"with_bus", "set_addr", "d1_convert", "d1_delay", "d1_adc_read",
               "d1_read", "d2_convert", "d2_delay", "d2_adc_read", "d2_read",
               "cal_write", "cal_delay", "cal_read", "compensate", "return_ms",
               "ds1_file", "ds1", "ds2_file", "ds2", "build", "log_open", "log_serialize", "log_write",
               "log_return", "main_err", "sleep", "panicked"}
    /\ cycle \in 1..(MaxCycles + 1)
    /\ res \in {"pending", "ok", "err"}
    /\ calIdx \in 0..6
    /\ Len(c) <= 6
    /\ fh \in BOOLEAN

Init ==
    /\ pc = "with_bus"
    /\ cycle = 1
    /\ i2c = None
    /\ ops = << >>
    /\ buf = <<0, 0, 0>>
    /\ cal_buf = <<0, 0>>
    /\ d1 = None /\ d2 = None
    /\ calIdx = 0
    /\ c = << >>
    /\ calc = None
    /\ res = "pending"
    /\ ms5611_data = None
    /\ ds1 = None /\ ds2 = None
    /\ ds18b20_1_temp = None /\ ds18b20_2_temp = None
    /\ content = None
    /\ sensor_data = None
    /\ fh = FALSE
    /\ json_data = None
    /\ log_res = None
    /\ errs = {}
    /\ file \in InitFiles
    /\ dev \in DeviceSet
    /\ lastSleep = 0
    /\ fileAtStart = file
    /\ file0 = file
    /\ nLogged = 0


(***************************************************************************)
(* read_and_calculate_ms5611 (main.rs:30-64) and read_calibration_word     *)
(* (main.rs:22-28).  Every bus call can fail; `?` then returns the error   *)
(* to main, which drops the handle and the locals.                         *)
(***************************************************************************)
\* the locals dropped but the handle kept open after the function returned
ms5611_locals_leaked ==
    /\ i2c' = i2c
    /\ buf' = <<0, 0, 0>>
    /\ cal_buf' = <<0, 0>>
    /\ d1' = None /\ d2' = None
    /\ calIdx' = 0
    /\ c' = << >>
    /\ calc' = None

\* the return drops the handle (closing the bus) and the locals
ms5611_locals_dropped ==
    /\ i2c' = None
    /\ buf' = <<0, 0, 0>>
    /\ cal_buf' = <<0, 0>>
    /\ d1' = None /\ d2' = None
    /\ calIdx' = 0
    /\ c' = << >>
    /\ calc' = None

\* the failing bus call is recorded, the function returns Err
ms5611_fail(entry) ==
    /\ ops' = Append(ops, entry)
    /\ ms5611_locals_dropped
    /\ res' = "err"
    /\ pc' = "main_err"
    /\ UNCHANGED <<ms5611_data, ds1, ds2, ds18b20_1_temp, ds18b20_2_temp,
                   sensor_data, errs, logLocals, file, thermLocals, envVars, lastSleep, history>>

\* i2c.write(&[byte])?
bus_write(at, byte, next) ==
    /\ pc = at
    /\ \/ /\ ops' = Append(ops, Op("write", byte, TRUE))
          /\ pc' = next
          /\ UNCHANGED <<i2c, msLocals, mainLocals, logLocals, file, thermLocals, envVars,
                         lastSleep, history>>
       \/ ms5611_fail(Op("write", byte, FALSE))

\* thread::sleep(time::Duration::from_millis(ms))
bus_delay(at, ms, next) ==
    /\ pc = at
    /\ ops' = Append(ops, Op("sleep", ms, TRUE))
    /\ lastSleep' = ms
    /\ pc' = next
    /\ UNCHANGED <<i2c, msLocals, mainLocals, logLocals, file, thermLocals, envVars, history>>

\* main.rs:31
i2c_with_bus ==
    /\ pc = "with_bus"
    /\ \/ /\ i2c' = Some([bus |-> I2C_BUS, addr |-> None])
          /\ ops' = Append(ops, Op("open", I2C_BUS, TRUE))
          /\ pc' = "set_addr"
          /\ UNCHANGED <<msLocals, mainLocals, logLocals, file, thermLocals, envVars,
                         lastSleep, history>>
       \/ ms5611_fail(Op("open", I2C_BUS, FALSE))

\* main.rs:32
set_slave_address ==
    /\ pc = "set_addr"
    /\ \/ /\ i2c' = Some([i2c[1] EXCEPT !.addr = Some(MS5611_ADDR)])
          /\ ops' = Append(ops, Op("addr", MS5611_ADDR, TRUE))
          /\ pc' = "d1_convert"
          /\ UNCHANGED <<msLocals, mainLocals, logLocals, file, thermLocals, envVars,
                         lastSleep, history>>
       \/ ms5611_fail(Op("addr", MS5611_ADDR, FALSE))

\* the temperature conversion triggered where the pressure conversion belongs
d1_convert_temperature == bus_write("d1_convert", CMD_CONVERT_D2, "d1_delay")
\* main.rs:34
d1_convert == bus_write("d1_convert", CMD_CONVERT_D1, "d1_delay")
\* the pressure conversion given only the calibration read's settling time
d1_delay_short == bus_delay("d1_delay", CALIBRATION_DELAY_MS, "d1_adc_read")
\* main.rs:35
d1_delay == bus_delay("d1_delay", CONVERSION_DELAY_MS, "d1_adc_read")
\* main.rs:36
d1_adc_read == bus_write("d1_adc_read", CMD_ADC_READ, "d1_read")
\* main.rs:37-39
d1_read ==
    /\ pc = "d1_read"
    /\ \/ /\ ops' = Append(ops, Op("read", 3, TRUE))
          /\ buf' = Bytes3(DeviceAdcRead(ops))
          /\ d1' = Some(Word24(buf'))
          /\ pc' = "d2_convert"
          /\ UNCHANGED <<i2c, cal_buf, d2, calIdx, c, calc, mainLocals,
                         logLocals, file, thermLocals, envVars, lastSleep, history>>
       \/ ms5611_fail(Op("read", 3, FALSE))

\* main.rs:41
d2_convert == bus_write("d2_convert", CMD_CONVERT_D2, "d2_delay")
\* main.rs:42
d2_delay == bus_delay("d2_delay", CONVERSION_DELAY_MS, "d2_adc_read")
\* main.rs:43
d2_adc_read == bus_write("d2_adc_read", CMD_ADC_READ, "d2_read")
\* main.rs:44-45, and the call of main.rs:47
d2_read ==
    /\ pc = "d2_read"
    /\ \/ /\ ops' = Append(ops, Op("read", 3, TRUE))
          /\ buf' = Bytes3(DeviceAdcRead(ops))
          /\ d2' = Some(Word24(buf'))
          /\ calIdx' = 1
          /\ pc' = "cal_write"
          /\ UNCHANGED <<i2c, cal_buf, d1, c, calc, mainLocals,
                         logLocals, file, thermLocals, envVars, lastSleep, history>>
       \/ ms5611_fail(Op("read", 3, FALSE))

\* main.rs:24, for the address of the call in progress
cal_write ==
    /\ pc = "cal_write"
    /\ \/ /\ ops' = Append(ops, Op("write", CalAddr(calIdx), TRUE))
          /\ pc' = "cal_delay"
          /\ UNCHANGED <<i2c, msLocals, mainLocals, logLocals, file, thermLocals, envVars,
                         lastSleep, history>>
       \/ ms5611_fail(Op("write", CalAddr(calIdx), FALSE))

\* the calibration read after half the settling time
cal_delay_short == bus_delay("cal_delay", CALIBRATION_DELAY_MS \div 2, "cal_read")
\* main.rs:25
cal_delay == bus_delay("cal_delay", CALIBRATION_DELAY_MS, "cal_read")

\* a failed read of a calibration word replaced by a default word of 0
\* (unwrap_or(0) in place of `?`)
cal_read_default ==
    /\ pc = "cal_read"
    /\ \E ok \in BOOLEAN :
         /\ ops' = Append(ops, Op("read", 2, ok))
         /\ cal_buf' = IF ok THEN Bytes2(DevicePromRead(ops[Len(ops) - 1].arg))
                       ELSE <<0, 0>>
    /\ c' = Append(c, Word16(cal_buf'))
    /\ IF calIdx < 6
       THEN calIdx' = calIdx + 1 /\ pc' = "cal_write"
       ELSE calIdx' = 0 /\ pc' = "compensate"
    /\ UNCHANGED <<i2c, buf, d1, d2, calc, mainLocals, logLocals, file,
                   thermLocals, envVars, lastSleep, history>>

\* main.rs:26-27 and the binding of the result in main.rs:47-52
cal_read ==
    /\ pc = "cal_read"
    /\ \/ /\ ops' = Append(ops, Op("read", 2, TRUE))
          /\ cal_buf' = Bytes2(DevicePromRead(ops[Len(ops) - 1].arg))
          /\ c' = Append(c, Word16(cal_buf'))
          /\ IF calIdx < 6
             THEN calIdx' = calIdx + 1 /\ pc' = "cal_write"
             ELSE calIdx' = 0 /\ pc' = "compensate"
          /\ UNCHANGED <<i2c, buf, d1, d2, calc, mainLocals, logLocals, file,
                         thermLocals, envVars, lastSleep, history>>
       \/ ms5611_fail(Op("read", 2, FALSE))

\* the compensation with calibration words kept from an earlier read of the
\* PROM instead of the words read in this call
compensate_cached ==
    /\ pc = "compensate"
    /\ calc' = Some(Compensation(d1[1], d2[1],
                               <<40127, 36924, 23317, 23282, 33464, 28312>>))
    /\ pc' = "return_ms"
    /\ UNCHANGED <<busVars, buf, cal_buf, d1, d2, calIdx, c, mainLocals,
                   logLocals, file, thermLocals, envVars, lastSleep, history>>

\* main.rs:54-58
compensate ==
    /\ pc = "compensate"
    /\ LET r == Compensation(d1[1], d2[1], c)
       IN  \/ /\ calc' = Some(r)
              /\ pc' = "return_ms"
           \/ /\ r.ovf           \* overflow checks on: the operation panics
              /\ calc' = None
              /\ pc' = "panicked"
    /\ UNCHANGED <<busVars, buf, cal_buf, d1, d2, calIdx, c, mainLocals,
                   logLocals, file, thermLocals, envVars, lastSleep, history>>

\* main.rs:60-63, the return to main.rs:96 and the Ok arm's binding
return_ms5611 ==
    /\ pc = "return_ms"
    /\ ms5611_data' = Some([d1 |-> d1[1], d2 |-> d2[1],
                            temperature |-> F64Div(calc[1].temp, 100),
                            pressure |-> F64Div(calc[1].press, 100)])
    /\ ms5611_locals_dropped
    /\ res' = "ok"
    /\ pc' = "ds1_file"
    /\ UNCHANGED <<ops, ds1, ds2, ds18b20_1_temp, ds18b20_2_temp, sensor_data,
                   errs, logLocals, file, thermLocals, envVars, lastSleep, history>>


(***************************************************************************)
(* main (main.rs:94-140), Ok arm: the two thermometers, the record and     *)
(* log_data_to_json (main.rs:81-92).                                       *)
(***************************************************************************)
\* main.rs:67-69 for a sensor: File::open(path)?.read_to_string(&mut content)?;
\* the file holds any of the reports, or cannot be opened or read
w1_slave_read(at, next) ==
    /\ pc = at
    /\ content' \in Reports
    /\ pc' = next
    /\ UNCHANGED <<busVars, msLocals, mainLocals, logLocals, file, envVars,
                   lastSleep, history>>

\* the call of main.rs:106 as far as main.rs:69
ds18b20_1_read_file == w1_slave_read("ds1_file", "ds1")

\* the call of main.rs:114 as far as main.rs:69
ds18b20_2_read_file == w1_slave_read("ds2_file", "ds2")

\* the first thermometer's error propagated (`?`) instead of matched
read_ds18b20_1_propagates ==
    /\ pc = "ds1"
    /\ LET r == read_temperature_ds18b20(content)
       IN  /\ ds1' = Some(r)
           /\ ds18b20_1_temp' = IF r.ok THEN Some(r.val[1]) ELSE None
           /\ errs' = IF r.ok THEN errs ELSE errs \cup {"DS18B20 1"}
           /\ pc' = IF r.ok THEN "ds2_file" ELSE "sleep"
    /\ content' = None
    /\ UNCHANGED <<busVars, msLocals, res, ms5611_data, ds2, ds18b20_2_temp,
                   sensor_data, logLocals, file, envVars, lastSleep, history>>

\* main.rs:71-78 on the content read, and the match of main.rs:106-112
read_ds18b20_1 ==
    /\ pc = "ds1"
    /\ LET r == read_temperature_ds18b20(content)
       IN  /\ ds1' = Some(r)
           /\ ds18b20_1_temp' = Some(IF r.ok THEN r.val[1] ELSE F32Zero)
           /\ errs' = IF r.ok THEN errs ELSE errs \cup {"DS18B20 1"}
    /\ content' = None
    /\ pc' = "ds2_file"
    /\ UNCHANGED <<busVars, msLocals, res, ms5611_data, ds2, ds18b20_2_temp,
                   sensor_data, logLocals, file, envVars, lastSleep, history>>

\* main.rs:71-78 on the content read, and the match of main.rs:114-120
read_ds18b20_2 ==
    /\ pc = "ds2"
    /\ LET r == read_temperature_ds18b20(content)
       IN  /\ ds2' = Some(r)
           /\ ds18b20_2_temp' = Some(IF r.ok THEN r.val[1] ELSE F32Zero)
           /\ errs' = IF r.ok THEN errs ELSE errs \cup {"DS18B20 2"}
    /\ content' = None
    /\ pc' = "build"
    /\ UNCHANGED <<busVars, msLocals, res, ms5611_data, ds1, ds18b20_1_temp,
                   sensor_data, logLocals, file, envVars, lastSleep, history>>

\* main.rs:125-129
build_sensor_data ==
    /\ pc = "build"
    /\ sensor_data' = Some([ms5611 |-> ms5611_data[1],
                            ds18b20_1 |-> ds18b20_1_temp[1],
                            ds18b20_2 |-> ds18b20_2_temp[1]])
    /\ pc' = "log_open"
    /\ UNCHANGED <<busVars, msLocals, res, ms5611_data, ds1, ds2,
                   ds18b20_1_temp, ds18b20_2_temp, errs, logLocals, file,
                   thermLocals, envVars, lastSleep, history>>

\* the file opened with File::create, which truncates it
log_open_truncate ==
    /\ pc = "log_open"
    /\ \/ /\ file' = Some(<< >>)
          /\ fh' = TRUE
          /\ pc' = "log_serialize"
          /\ UNCHANGED <<json_data, log_res>>
       \/ /\ log_res' = Some(Err)
          /\ pc' = "log_return"
          /\ UNCHANGED <<file, fh, json_data>>
    /\ UNCHANGED <<busVars, msLocals, mainLocals, thermLocals, envVars, lastSleep, history>>

\* main.rs:82-85: OpenOptions::new().create(true).append(true).open(..)?
log_open ==
    /\ pc = "log_open"
    /\ \/ /\ file' = IF file = None THEN Some(<< >>) ELSE file
          /\ fh' = TRUE
          /\ pc' = "log_serialize"
          /\ UNCHANGED <<json_data, log_res>>
       \/ /\ log_res' = Some(Err)
          /\ pc' = "log_return"
          /\ UNCHANGED <<file, fh, json_data>>
    /\ UNCHANGED <<busVars, msLocals, mainLocals, thermLocals, envVars, lastSleep, history>>

\* main.rs:87: serde_json::to_string(&sensor_data)?
log_serialize ==
    /\ pc = "log_serialize"
    /\ \/ /\ json_data' = Some(to_string(sensor_data[1]))
          /\ pc' = "log_write"
          /\ UNCHANGED <<fh, log_res>>
       \/ /\ log_res' = Some(Err)
          /\ fh' = FALSE
          /\ pc' = "log_return"
          /\ UNCHANGED json_data
    /\ UNCHANGED <<busVars, msLocals, mainLocals, file, thermLocals, envVars, lastSleep, history>>

\* write! in place of writeln!: no line terminator
log_write_no_newline ==
    /\ pc = "log_write"
    /\ \/ /\ file' = Some(file[1] \o <<Piece("json", json_data)>>)
          /\ log_res' = Some(Ok("unit"))
       \/ /\ file' = file
          /\ log_res' = Some(Err)
       \/ /\ file' = Some(file[1] \o <<Piece("part", None)>>)
          /\ log_res' = Some(Err)
    /\ fh' = FALSE
    /\ json_data' = None
    /\ pc' = "log_return"
    /\ UNCHANGED <<busVars, msLocals, mainLocals, thermLocals, envVars, lastSleep, history>>

\* main.rs:89-91: writeln!(file, "{}", json_data)? writes the text and then
\* the line terminator, each with write_all; a failing write_all may have
\* written part of its bytes.  The file is opened for appending.
log_write ==
    /\ pc = "log_write"
    /\ \/ /\ file' = Some(file[1] \o <<Piece("json", json_data), NL>>)
          /\ log_res' = Some(Ok("unit"))
       \/ /\ file' = file
          /\ log_res' = Some(Err)
       \/ /\ file' = Some(file[1] \o <<Piece("part", None)>>)
          /\ log_res' = Some(Err)
       \/ /\ file' = Some(file[1] \o <<Piece("json", json_data)>>)
          /\ log_res' = Some(Err)
    /\ fh' = FALSE
    /\ json_data' = None
    /\ pc' = "log_return"
    /\ UNCHANGED <<busVars, msLocals, mainLocals, thermLocals, envVars, lastSleep, history>>

\* log_data_to_json(sensor_data).unwrap() in place of `if let Err(e)`
log_return_unwrap ==
    /\ pc = "log_return"
    /\ errs' = errs
    /\ nLogged' = IF log_res[1].ok THEN nLogged + 1 ELSE nLogged
    /\ sensor_data' = None
    /\ pc' = IF log_res[1].ok THEN "sleep" ELSE "panicked"
    /\ UNCHANGED <<busVars, msLocals, res, ms5611_data, ds1, ds2,
                   ds18b20_1_temp, ds18b20_2_temp, logLocals, file, thermLocals, envVars,
                   lastSleep, cycle, fileAtStart, file0>>

\* a failed log write answered by keeping the record and writing it again
log_return_retries ==
    /\ pc = "log_return"
    /\ errs' = IF log_res[1].ok THEN errs ELSE errs \cup {"JSON"}
    /\ nLogged' = IF log_res[1].ok THEN nLogged + 1 ELSE nLogged
    /\ sensor_data' = IF log_res[1].ok \/ "JSON" \in errs THEN None ELSE sensor_data
    /\ pc' = IF log_res[1].ok \/ "JSON" \in errs THEN "sleep" ELSE "log_open"
    /\ UNCHANGED <<busVars, msLocals, res, ms5611_data, ds1, ds2,
                   ds18b20_1_temp, ds18b20_2_temp, logLocals, file, thermLocals, envVars,
                   lastSleep, cycle, fileAtStart, file0>>

\* main.rs:131-134: the record was moved into log_data_to_json and is gone
log_return ==
    /\ pc = "log_return"
    /\ errs' = IF log_res[1].ok THEN errs ELSE errs \cup {"JSON"}
    /\ nLogged' = IF log_res[1].ok THEN nLogged + 1 ELSE nLogged
    /\ sensor_data' = None
    /\ pc' = "sleep"
    /\ UNCHANGED <<busVars, msLocals, res, ms5611_data, ds1, ds2,
                   ds18b20_1_temp, ds18b20_2_temp, logLocals, file, thermLocals, envVars,
                   lastSleep, cycle, fileAtStart, file0>>

\* the Err arm going on to the thermometers
main_err_reads_thermometers ==
    /\ pc = "main_err"
    /\ errs' = errs \cup {"MS5611"}
    /\ pc' = "ds1_file"
    /\ UNCHANGED <<busVars, msLocals, res, ms5611_data, ds1, ds2,
                   ds18b20_1_temp, ds18b20_2_temp, sensor_data, logLocals,
                   file, thermLocals, envVars, lastSleep, history>>

\* the Err arm logging a record of default values
main_err_logs_default ==
    /\ pc = "main_err"
    /\ errs' = errs \cup {"MS5611"}
    /\ file' = Some(Content(file) \o <<Piece("json", None), NL>>)
    /\ pc' = "sleep"
    /\ UNCHANGED <<busVars, msLocals, res, ms5611_data, ds1, ds2,
                   ds18b20_1_temp, ds18b20_2_temp, sensor_data, logLocals,
                   thermLocals, envVars, lastSleep, history>>

\* main.rs:135
main_err ==
    /\ pc = "main_err"
    /\ errs' = errs \cup {"MS5611"}
    /\ pc' = "sleep"
    /\ UNCHANGED <<busVars, msLocals, res, ms5611_data, ds1, ds2,
                   ds18b20_1_temp, ds18b20_2_temp, sensor_data, logLocals,
                   file, thermLocals, envVars, lastSleep, history>>

\* main.rs:138 and the next turn of the loop; during the pause the device
\* may be reset or replaced
main_sleep ==
    /\ pc = "sleep"
    /\ cycle < MaxCycles
    /\ lastSleep' = POLL_INTERVAL_MS
    /\ cycle' = cycle + 1
    /\ fileAtStart' = file
    /\ ops' = << >>
    /\ res' = "pending"
    /\ ms5611_data' = None
    /\ ds1' = None /\ ds2' = None
    /\ ds18b20_1_temp' = None /\ ds18b20_2_temp' = None
    /\ log_res' = None
    /\ errs' = {}
    /\ dev' \in DeviceSet
    /\ pc' = "with_bus"
    /\ UNCHANGED <<i2c, msLocals, thermLocals, sensor_data, fh, json_data, file,
                   file0, nLogged>>

(***************************************************************************)
(* The compensation alone: the program stands before main.rs:54 with the   *)
(* values a device has delivered, taken from the corners and the middle of *)
(* the ranges of the 24-bit conversions and the 16-bit calibration words.  *)
(***************************************************************************)
CompD1 == {0, 1, 8388608, 9085466, 16777215}
CompD2 == {0, 1, 8388608, 8566784, 8569150, 16777215}
CalExample == <<40127, 36924, 23317, 23282, 33464, 28312>>
CompCal == [1..6 -> {0, 65535}]
             \cup {CalExample,
                   <<1, 1, 1, 1, 1, 1>>,
                   <<65535, 0, 65535, 0, 32768, 3>>,
                   <<46372, 43981, 29059, 27842, 31553, 28165>>}
             \cup {[CalExample EXCEPT ![k] = w] : k \in 1..6, w \in {0, 65535}}

\* the bus operations of a call in which nothing failed
RECURSIVE CalTrace(_)
CalTrace(k) ==
    IF k = 0 THEN << >>
    ELSE CalTrace(k - 1) \o <<Op("write", CalAddr(k), TRUE),
                               Op("sleep", CALIBRATION_DELAY_MS, TRUE),
                               Op("read", 2, TRUE)>>

ConvTrace(cmd) ==
    <<Op("write", cmd, TRUE), Op("sleep", CONVERSION_DELAY_MS, TRUE),
      Op("write", CMD_ADC_READ, TRUE), Op("read", 3, TRUE)>>

FullTrace ==
    <<Op("open", I2C_BUS, TRUE), Op("addr", MS5611_ADDR, TRUE)>>
        \o ConvTrace(CMD_CONVERT_D1) \o ConvTrace(CMD_CONVERT_D2) \o CalTrace(6)

InitComp ==
    /\ pc = "compensate"
    /\ cycle = 1
    /\ \E a \in CompD1, b \in CompD2, cw \in CompCal :
         /\ dev = [prom |-> cw, adc1 |-> a, adc2 |-> b]
         /\ d1 = Some(a) /\ d2 = Some(b)
         /\ c = cw
         /\ buf = Bytes3(b)
         /\ cal_buf = Bytes2(cw[6])
    /\ i2c = Some([bus |-> I2C_BUS, addr |-> Some(MS5611_ADDR)])
    /\ ops = FullTrace
    /\ calIdx = 0
    /\ calc = None
    /\ res = "pending"
    /\ ms5611_data = None
    /\ ds1 = None /\ ds2 = None
    /\ ds18b20_1_temp = None /\ ds18b20_2_temp = None
    /\ content = None
    /\ sensor_data = None
    /\ fh = FALSE
    /\ json_data = None
    /\ log_res = None
    /\ errs = {}
    /\ file = None
    /\ lastSleep = CALIBRATION_DELAY_MS
    /\ fileAtStart = file
    /\ file0 = file
    /\ nLogged = 0

NextComp == compensate \/ return_ms5611

SpecComp == InitComp /\ [][NextComp]_vars

Next ==
    \/ i2c_with_bus \/ set_slave_address
    \/ d1_convert \/ d1_delay \/ d1_adc_read \/ d1_read
    \/ d2_convert \/ d2_delay \/ d2_adc_read \/ d2_read
    \/ cal_write \/ cal_delay \/ cal_read
    \/ compensate \/ return_ms5611
    \/ ds18b20_1_read_file \/ read_ds18b20_1
    \/ ds18b20_2_read_file \/ read_ds18b20_2 \/ build_sensor_data
    \/ log_open \/ log_serialize \/ log_write \/ log_return
    \/ main_err \/ main_sleep

Spec == Init /\ [][Next]_vars

\* the program is one thread that always runs: a step that can be taken is taken
FairSpec == Spec /\ WF_vars(Next)

(***************************************************************************)
(* The calibration reads alone: the program stands before main.rs:47, both *)
(* conversions read.  The devices' PROMs hold every 16-bit word: six       *)
(* consecutive words each, and, for a byte x, the words of x as the high   *)
(* byte of the smallest, the largest and a middle low byte and of x as the *)
(* low byte of three such high bytes, at the six addresses in each of the  *)
(* six rotations.                                                          *)
(***************************************************************************)
\* the six words from 6n on (after 65535 comes 0)
CalWordsFrom(n) == [i \in 1..6 |-> (6 * n + i - 1) % 65536]

CalWordsOf(x) ==
    <<x * 256, x * 256 + 255, x * 256 + 52, x, 255 * 256 + x, 18 * 256 + x>>

Rotate(s, r) == [i \in 1..Len(s) |-> s[((i - 1 + r) % Len(s)) + 1]]

CalProms ==
    {CalWordsFrom(n) : n \in 0..10922}
        \cup {Rotate(CalWordsOf(x), r) : x \in 0..255, r \in 0..5}

InitCal ==
    /\ pc = "cal_write"
    /\ cycle = 1
    /\ \E prom \in CalProms :
         dev = [prom |-> prom, adc1 |-> 9085466, adc2 |-> 8569150]
    /\ d1 = Some(dev.adc1) /\ d2 = Some(dev.adc2)
    /\ buf = Bytes3(dev.adc2)
    /\ cal_buf = <<0, 0>>
    /\ c = << >>
    /\ calIdx = 1
    /\ i2c = Some([bus |-> I2C_BUS, addr |-> Some(MS5611_ADDR)])
    /\ ops = SubSeq(FullTrace, 1, 10)
    /\ calc = None
    /\ res = "pending"
    /\ ms5611_data = None
    /\ ds1 = None /\ ds2 = None
    /\ ds18b20_1_temp = None /\ ds18b20_2_temp = None
    /\ content = None
    /\ sensor_data = None
    /\ fh = FALSE
    /\ json_data = None
    /\ log_res = None
    /\ errs = {}
    /\ file = None
    /\ lastSleep = CONVERSION_DELAY_MS
    /\ fileAtStart = file
    /\ file0 = file
    /\ nLogged = 0

NextCal == cal_write \/ cal_delay \/ cal_read

SpecCal == InitCal /\ [][NextCal]_vars

(***************************************************************************)
(* The thermometer reads alone: the acquisition has succeeded and the      *)
(* first thermometer's file has been read (main.rs:69); its content is any *)
(* of the reports below.  The second thermometer's file is read after it.  *)
(***************************************************************************)
DigitsOf[n \in Nat] ==
    IF n < 10 THEN <<Digits[n + 1]>>
    ELSE DigitsOf[n \div 10] \o <<Digits[(n % 10) + 1]>>

\* the decimal text of an integer
NumText(n) == IF n < 0 THEN <<"-">> \o DigitsOf[-n] ELSE DigitsOf[n]

\* a report with the CRC verdict `verdict` and the text `value` after "t="
ReportOf(verdict, value) == verdict \o <<"\n", "t", "=">> \o value \o <<"\n">>

\* thousandths of a degree: the sensor's range, its power-on value 85000,
\* and values around zero
MilliDegrees == {-55000, -1250, -1, 0, 1, 999, 23456, 85000, 125000}

\* values Rust's f32 grammar accepts as the integers 5, 7 and -40
PaddedValues == {<<"+", "5">>, <<"0", "0", "7">>, <<"-", "0", "4", "0">>}

\* values it rejects
UnparsableValues == {<< >>, <<"-">>, <<"2", "x">>, <<"2", "3", " ", "C">>,
                     <<"-", "-", "1">>}

ThermContents ==
    {None, Some(ReportNoMarker)}
        \cup {Some(ReportOf(<<"Y", "E", "S">>, NumText(n))) : n \in MilliDegrees}
        \cup {Some(ReportOf(<<"N", "O">>, NumText(n))) : n \in MilliDegrees}
        \cup {Some(ReportOf(<<"Y", "E", "S">>, v)) : v \in PaddedValues}
        \cup {Some(ReportOf(<<"Y", "E", "S">>, v)) : v \in UnparsableValues}

InitTherm ==
    /\ pc = "ds1"
    /\ cycle = 1
    /\ content \in ThermContents
    /\ dev = [prom |-> CalExample, adc1 |-> 9085466, adc2 |-> 8569150]
    /\ i2c = None
    /\ ops = FullTrace
    /\ buf = <<0, 0, 0>>
    /\ cal_buf = <<0, 0>>
    /\ d1 = None /\ d2 = None
    /\ calIdx = 0
    /\ c = << >>
    /\ calc = None
    /\ res = "ok"
    /\ ms5611_data =
          Some([d1 |-> dev.adc1, d2 |-> dev.adc2,
                temperature |-> F64Div(Compensation(dev.adc1, dev.adc2, dev.prom).temp, 100),
                pressure |-> F64Div(Compensation(dev.adc1, dev.adc2, dev.prom).press, 100)])
    /\ ds1 = None /\ ds2 = None
    /\ ds18b20_1_temp = None /\ ds18b20_2_temp = None
    /\ sensor_data = None
    /\ fh = FALSE
    /\ json_data = None
    /\ log_res = None
    /\ errs = {}
    /\ file \in InitFiles
    /\ lastSleep = CALIBRATION_DELAY_MS
    /\ fileAtStart = file
    /\ file0 = file
    /\ nLogged = 0

NextTherm == read_ds18b20_1 \/ ds18b20_2_read_file \/ read_ds18b20_2

SpecTherm == InitTherm /\ [][NextTherm]_vars

(***************************************************************************)
(* One iteration of the loop with a device whose two conversion results    *)
(* range over byte triples: each of the three bytes takes every value      *)
(* while the other two are 00 00, FF FF, 00 FF or A5 5A.                   *)
(***************************************************************************)
\* the value the device's ADC holds when it delivers the bytes t, first
\* byte most significant
AdcOf(t) == t[1] * 65536 + t[2] * 256 + t[3]

ConvBackgrounds == {<<0, 0>>, <<255, 255>>, <<0, 255>>, <<165, 90>>}

ConvDevices ==
    { [prom |-> CalExample,
       adc1 |-> AdcOf(Rotate(<<n, g[1], g[2]>>, r)),
       adc2 |-> AdcOf(Rotate(<<n, g[1], g[2]>>, r + 1))] :
          n \in 0..255, g \in ConvBackgrounds, r \in 0..2 }

InitConv ==
    /\ pc = "with_bus"
    /\ cycle = 1
    /\ i2c = None
    /\ ops = << >>
    /\ buf = <<0, 0, 0>>
    /\ cal_buf = <<0, 0>>
    /\ d1 = None /\ d2 = None
    /\ calIdx = 0
    /\ c = << >>
    /\ calc = None
    /\ res = "pending"
    /\ ms5611_data = None
    /\ ds1 = None /\ ds2 = None
    /\ ds18b20_1_temp = None /\ ds18b20_2_temp = None
    /\ content = None
    /\ sensor_data = None
    /\ fh = FALSE
    /\ json_data = None
    /\ log_res = None
    /\ errs = {}
    /\ file = None
    /\ dev \in ConvDevices
    /\ lastSleep = 0
    /\ fileAtStart = file
    /\ file0 = file
    /\ nLogged = 0

NextConv ==
    \/ i2c_with_bus \/ set_slave_address
    \/ d1_convert \/ d1_delay \/ d1_adc_read \/ d1_read
    \/ d2_convert \/ d2_delay \/ d2_adc_read \/ d2_read
    \/ cal_write \/ cal_delay \/ cal_read
    \/ compensate \/ return_ms5611
    \/ ds18b20_1_read_file \/ read_ds18b20_1
    \/ ds18b20_2_read_file \/ read_ds18b20_2 \/ build_sensor_data
    \/ log_open \/ log_serialize \/ log_write \/ log_return
    \/ main_err

SpecConv == InitConv /\ [][NextConv]_vars


(***************************************************************************)
(* Properties.                                                             *)
(***************************************************************************)
Failed(trace) == \E i \in 1..Len(trace) : ~trace[i].ok

\* C1 (cycle-skip): in an iteration whose pressure acquisition failed, no
\* SensorData record is built and nothing is appended to the log: the file
\* is what it was when the iteration started, so its line count is too.
C1_CycleSkip ==
    res = "err" =>
        /\ pc \in {"main_err", "sleep"}
        /\ sensor_data = None
        /\ json_data = None
        /\ file = fileAtStart
        /\ LineCount(file) = LineCount(fileAtStart)

\* an iteration skipped after a failed read, at its pause, the previous
\* iteration having logged a line
C1_Witness ==
    /\ pc = "sleep" /\ res = "err" /\ cycle = 2
    /\ ops # << >> /\ ops[Len(ops)].op = "read" /\ ~ops[Len(ops)].ok
    /\ LineCount(file) = LineCount(file0) + 1

\* C2 (degraded record): after a successful acquisition each thermometer's
\* slot of the record holds 0.0 when its read failed and its own value when
\* it succeeded, whatever the other read did; neither failure aborts the
\* iteration: after the first read comes the second, then the record, then
\* the logger, which is handed that record.
C2_Slots ==
    /\ (ds18b20_1_temp # None /\ ds1 # None) =>
          ds18b20_1_temp[1] = (IF ds1[1].ok THEN ds1[1].val[1] ELSE F32Zero)
    /\ (ds18b20_2_temp # None /\ ds2 # None) =>
          ds18b20_2_temp[1] = (IF ds2[1].ok THEN ds2[1].val[1] ELSE F32Zero)
    /\ sensor_data # None =>
          /\ res = "ok" /\ ds1 # None /\ ds2 # None
          /\ sensor_data[1].ms5611 = ms5611_data[1]
          /\ sensor_data[1].ds18b20_1 = (IF ds1[1].ok THEN ds1[1].val[1] ELSE F32Zero)
          /\ sensor_data[1].ds18b20_2 = (IF ds2[1].ok THEN ds2[1].val[1] ELSE F32Zero)
    /\ pc \in {"log_open", "log_serialize", "log_write"} => sensor_data # None

C2_DegradedRecord ==
    /\ []C2_Slots
    /\ [][/\ pc = "ds1_file" => pc' = "ds1"
          /\ pc = "ds1" => pc' = "ds2_file"
          /\ pc = "ds2_file" => pc' = "ds2"
          /\ pc = "ds2" => pc' = "build"
          /\ pc = "build" => pc' = "log_open" /\ sensor_data' # None]_vars

\* the record reaches the logger with the first read failed and the second
\* one's value in place
C2_Witness ==
    /\ pc = "log_open" /\ sensor_data # None
    /\ ~ds1[1].ok /\ ds2[1].ok
    /\ sensor_data[1].ds18b20_1 = [num |-> 0, den |-> 1]
    /\ sensor_data[1].ds18b20_2 = [num |-> 23456, den |-> 1000]

\* C3 (transport failure): a failed bus operation is the last one of its
\* iteration (nothing is issued after it, none is repeated), the call has
\* returned an error, and no reading exists; a compensation is only ever
\* computed from the six words and two conversions the device delivered.
C3_TransportFailure ==
    /\ \A i \in 1..Len(ops) : ~ops[i].ok => i = Len(ops)
    /\ Failed(ops) =>
          /\ res = "err"
          /\ pc \in {"main_err", "sleep"}
          /\ i2c = None
          /\ calc = None /\ ms5611_data = None /\ sensor_data = None
    /\ (res = "err") => Failed(ops)
    /\ (pc \in {"compensate", "return_ms"} \/ calc # None) =>
          /\ ~Failed(ops)
          /\ c = dev.prom
          /\ d1 = Some(dev.adc1) /\ d2 = Some(dev.adc2)
    /\ ms5611_data # None => ~Failed(ops)

\* the read of the fourth calibration word has failed
C3_Witness ==
    /\ res = "err" /\ pc = "main_err"
    /\ Len(ops) = 22
    /\ ops[21] = Op("sleep", 10, TRUE)
    /\ ops[22] = Op("read", 2, FALSE)


(***************************************************************************)
(* The compensation formula, stated without the program's arithmetic: q is *)
(* n / 2^k rounded toward zero iff the remainder n - q * 2^k is smaller    *)
(* than 2^k in magnitude and is zero or has the sign of n.                 *)
(***************************************************************************)
TruncQuot(n, k, q) ==
    LET rem == ZSub[n, ZMul[q, ZPow2[k]]]
    IN  /\ ZLt(ZAbs[rem], ZPow2[k])
        /\ rem = Z0 \/ rem.neg = n.neg

\* the locals r are what the formula gives for the conversions D1, D2 and
\* the calibration words C
FormulaHolds(D1, D2, C, r) ==
    LET dT == ZOfInt[D2 - C[5] * 256]
    IN  /\ r.d_t = dT
        /\ TruncQuot(ZMul[dT, ZOfInt[C[6]]], 23, ZSub[r.temp, ZOfInt[2000]])
        /\ TruncQuot(ZMul[ZOfInt[C[4]], dT], 7,
                     ZSub[r.off, ZMul[ZOfInt[C[2]], ZPow2[16]]])
        /\ TruncQuot(ZMul[ZOfInt[C[3]], dT], 8,
                     ZSub[r.sens, ZMul[ZOfInt[C[1]], ZPow2[15]]])
        /\ TruncQuot(ZMul[ZOfInt[D1], r.sens], 21, r.q)
        /\ TruncQuot(ZSub[r.q, r.off], 15, r.press)

\* C4 (compensation): for the conversions and calibration words read, the
\* locals are dT = D2 - C5*256, TEMP = 2000 + (dT*C6)/2^23,
\* OFF = C2*2^16 + (C4*dT)/2^7, SENS = C1*2^15 + (C3*dT)/2^8 and
\* P = ((D1*SENS)/2^21 - OFF)/2^15 with every quotient rounded toward zero,
\* and the reading returned carries TEMP and P as hundredths, with D1, D2.
C4_Compensation ==
    /\ [](calc # None => FormulaHolds(d1[1], d2[1], c, calc[1]))
    /\ [][pc = "return_ms" =>
            /\ ms5611_data' # None
            /\ ms5611_data'[1].temperature = [num |-> calc[1].temp, den |-> 100]
            /\ ms5611_data'[1].pressure = [num |-> calc[1].press, den |-> 100]
            /\ ms5611_data'[1].d1 = d1[1] /\ ms5611_data'[1].d2 = d2[1]]_vars

\* a compensation with a negative dividend that 2^23 does not divide, where
\* rounding toward zero and rounding down differ
C4_Witness ==
    /\ calc # None
    /\ calc[1].d_t.neg
    /\ LET n == ZMul[calc[1].d_t, ZOfInt[c[6]]]
       IN  DivPow2[n, 23] # DivFloorPow2[n, 23]
    /\ DivPow2[ZSub[calc[1].q, calc[1].off], 15]
          # DivFloorPow2[ZSub[calc[1].q, calc[1].off], 15]

InI64(x) == ZLe(ZNeg[ZPow2[63]], x) /\ ZLt(x, ZPow2[63])

\* the values of the formula in unbounded integers all lie in the signed
\* 64-bit range, and the locals r are these values
ExactInRange(D1, D2, C, r) ==
    LET dT   == ZOfInt[D2 - C[5] * 256]
        tc6  == ZMul[dT, ZOfInt[C[6]]]
        c4dt == ZMul[ZOfInt[C[4]], dT]
        c3dt == ZMul[ZOfInt[C[3]], dT]
        OFF  == ZAdd[ZMul[ZOfInt[C[2]], ZPow2[16]], DivPow2[c4dt, 7]]
        SENS == ZAdd[ZMul[ZOfInt[C[1]], ZPow2[15]], DivPow2[c3dt, 8]]
        d1s  == ZMul[ZOfInt[D1], SENS]
        diff == ZSub[DivPow2[d1s, 21], OFF]
        P    == DivPow2[diff, 15]
        TEMP == ZAdd[ZOfInt[2000], DivPow2[tc6, 23]]
    IN  /\ InI64(dT) /\ InI64(tc6) /\ InI64(c4dt) /\ InI64(c3dt)
        /\ InI64(OFF) /\ InI64(SENS) /\ InI64(d1s) /\ InI64(diff) /\ InI64(P)
        /\ InI64(TEMP)
        /\ r.d_t = dT /\ r.temp = TEMP /\ r.off = OFF /\ r.sens = SENS
        /\ r.press = P
        /\ D2 < C[5] * 256 =>
              /\ dT.neg
              /\ ZLe(r.temp, ZOfInt[2000])
              /\ ZLe(r.off, ZMul[ZOfInt[C[2]], ZPow2[16]])
              /\ ZLe(r.sens, ZMul[ZOfInt[C[1]], ZPow2[15]])

\* C5 (no overflow): no operation of the compensation overflows i64: every
\* intermediate value, computed in unbounded integers, lies in the signed
\* 64-bit range and is the value the program holds; with D2 < C5*256, dT is
\* negative and TEMP, OFF and SENS are the sign-correct values.
C5_NoOverflow ==
    /\ pc # "panicked"
    /\ calc # None =>
          /\ ~calc[1].ovf
          /\ ExactInRange(d1[1], d2[1], c, calc[1])

\* a compensation with dT < 0 whose product D1*SENS needs more than 32 bits
\* and whose product C3*dT is negative and needs more than 32 bits
C5_Witness ==
    /\ calc # None
    /\ d2[1] < c[5] * 256
    /\ ~ZLt(ZMul[ZOfInt[d1[1]], calc[1].sens], ZPow2[31])
    /\ ZLt(ZMul[ZOfInt[c[3]], calc[1].d_t], ZNeg[ZPow2[31]])


(***************************************************************************)
(* Properties of the bus traffic of one iteration.                         *)
(***************************************************************************)
IsWrite(e, byte) == e.op = "write" /\ e.arg = byte
IsTrigger(e) == IsWrite(e, 72) \/ IsWrite(e, 88)

\* C6 (conversion sequence): a trigger byte (0x48, 0x58) that was written is
\* followed directly by a delay of at least 50 ms, that by the write of
\* 0x00, that by a read of 3 bytes; a read of 3 bytes and a write of 0x00
\* occur nowhere else, the pressure trigger opens the first conversion and
\* the temperature trigger the second.
C6_ConversionSequence ==
    /\ \A i \in 1..Len(ops) :
         (IsTrigger(ops[i]) /\ ops[i].ok) =>
            /\ i + 1 <= Len(ops) => (ops[i + 1].op = "sleep" /\ ops[i + 1].arg >= 50)
            /\ i + 2 <= Len(ops) => IsWrite(ops[i + 2], 0)
            /\ i + 3 <= Len(ops) => (ops[i + 3].op = "read" /\ ops[i + 3].arg = 3)
    /\ \A i \in 1..Len(ops) :
         (ops[i].op = "read" /\ ops[i].arg = 3) =>
            /\ i > 3
            /\ IsWrite(ops[i - 1], 0) /\ ops[i - 1].ok
            /\ ops[i - 2].op = "sleep" /\ ops[i - 2].arg >= 50
            /\ IsTrigger(ops[i - 3]) /\ ops[i - 3].ok
    /\ \A i \in 1..Len(ops) :
         IsWrite(ops[i], 0) =>
            i > 2 /\ ops[i - 1].op = "sleep" /\ IsTrigger(ops[i - 2])
    /\ \A i \in 1..Len(ops) : IsTrigger(ops[i]) => i \in {3, 7}
    /\ Len(ops) >= 3 => IsWrite(ops[3], 72)
    /\ Len(ops) >= 7 => IsWrite(ops[7], 88)
    /\ d1 # None => (Len(ops) >= 6 /\ ops[6] = Op("read", 3, TRUE))
    /\ d2 # None => (Len(ops) >= 10 /\ ops[10] = Op("read", 3, TRUE))

\* both conversions have been read
C6_Witness == d1 # None /\ d2 # None /\ pc = "cal_write" /\ calIdx = 1

\* the PROM read commands among the bytes written (0xA0 .. 0xAE)
CalWrites(trace) == SelectSeq(trace, LAMBDA e : e.op = "write" /\ e.arg >= 160 /\ e.arg <= 174)
OkReads(trace, n) == SelectSeq(trace, LAMBDA e : e.op = "read" /\ e.arg = n /\ e.ok)

SomethingFailed ==
    \/ res = "err"
    \/ ds1 = Some(Err) \/ ds2 = Some(Err)
    \/ log_res = Some(Err)

\* C8 (errors never stop the loop): no state is a crash, every state but the
\* pause of the last iteration explored has a next step, the pause is 5 s
\* and leads to the start of the next iteration, and after a transport, a
\* thermometer or a log write failure the iteration reaches its pause and,
\* from there, the next iteration begins.
C8_LoopContinues ==
    /\ [](pc # "panicked")
    /\ []((pc = "sleep" /\ cycle >= MaxCycles) \/ ENABLED Next)
    /\ [][pc = "sleep" => /\ pc' = "with_bus" /\ cycle' = cycle + 1
                          /\ lastSleep' = 5000]_vars
    /\ [][(pc = "main_err" \/ pc = "log_return") => pc' = "sleep"]_vars
    /\ (SomethingFailed ~> pc = "sleep")
    /\ ((pc = "sleep" /\ cycle < MaxCycles) ~> (pc = "with_bus" /\ lastSleep = 5000))

\* a second iteration has begun after a first one that logged nothing and
\* reported an error
C8_Witness ==
    /\ cycle = 2 /\ pc = "set_addr" /\ lastSleep = 5000
    /\ nLogged = 0 /\ file = file0

\* C9 (append-only log): no step shortens the log or changes what it held:
\* the content before a step is a prefix of the content after it, the file
\* is never removed, and an open of log_data_to_json that succeeds leaves
\* the file in existence; so the content at the program's start and at the
\* start of the iteration are prefixes of the present content.
C9_AppendOnly ==
    /\ [][/\ IsPrefix(Content(file), Content(file'))
          /\ file # None => file' # None
          /\ (pc = "log_open" /\ pc' = "log_serialize") => file' # None]_vars
    /\ [](IsPrefix(Content(file0), Content(file)))
    /\ [](IsPrefix(Content(fileAtStart), Content(file)))
    /\ [](fh => file # None)

\* a log that held a line before the program started and has had a failed
\* write's text and then a further line appended
C9_Witness ==
    /\ file0 # None /\ Len(Content(file0)) = 2
    /\ Len(Content(file)) = 5
    /\ Content(file)[3].kind \in {"part", "json"}
    /\ Content(file)[5] = NL
    /\ nLogged = 1

\* the statements that issue a bus operation
BusPcs == {"with_bus", "set_addr", "d1_convert", "d1_delay", "d1_adc_read",
           "d1_read", "d2_convert", "d2_delay", "d2_adc_read", "d2_read",
           "cal_write", "cal_delay", "cal_read"}

\* C10 (one record per successful cycle): the lines in the log are those it
\* held when the program started plus one for each iteration in which the
\* acquisition and the log write both succeeded; an iteration appends at
\* most one line; and while an iteration is at its bus operations nothing
\* of a log append is in progress and nothing has been appended in it.
C10_OneRecordPerCycle ==
    /\ LineCount(file) = LineCount(file0) + nLogged
          + (IF pc = "log_return" /\ log_res = Some(Ok("unit")) THEN 1 ELSE 0)
    /\ LineCount(file) <= LineCount(fileAtStart) + 1
    /\ LineCount(file) = LineCount(fileAtStart) + 1 =>
          (res = "ok" /\ pc \in {"log_return", "sleep"})
    /\ nLogged <= cycle
    /\ (pc \in BusPcs \/ i2c # None) =>
          /\ ~fh /\ json_data = None /\ sensor_data = None /\ log_res = None
          /\ file = fileAtStart

\* two iterations, two lines
C10_Witness ==
    /\ pc = "sleep" /\ cycle = 2 /\ nLogged = 2
    /\ LineCount(file) = LineCount(file0) + 2


(***************************************************************************)
(* Properties of the byte combinations.                                    *)
(***************************************************************************)
\* C11 (calibration word): the word a call of read_calibration_word has
\* returned is b0*256 + b1 for the two bytes b0, b1 (each in 0..255) that
\* its read put in the buffer, at every one of the six addresses; these are
\* the bytes of the word the device holds at the address written, so the
\* words read so far are the device's words in the order of the addresses.
C11_CalibrationWord ==
    /\ cal_buf[1] \in 0..255 /\ cal_buf[2] \in 0..255
    /\ (i2c # None /\ c # << >>) =>
          /\ c[Len(c)] = cal_buf[1] * 256 + cal_buf[2]
          /\ c[Len(c)] \in 0..65535
          /\ ops[Len(ops)] = Op("read", 2, TRUE) =>
                CalWrites(ops)[Len(c)].arg = CalAddrs[Len(c)]
    /\ \A i \in 1..Len(c) : c[i] = dev.prom[i]

\* the bytes 0x12, 0x34 have been read at the address 0xA8 and the word is
\* 0x1234
C11_Witness ==
    /\ pc = "cal_write" /\ calIdx = 5 /\ Len(c) = 4
    /\ cal_buf = <<18, 52>>
    /\ c[4] = 4660
    /\ ops[Len(ops) - 2] = Op("write", 168, TRUE)


(***************************************************************************)
(* Properties of the thermometer reads.                                    *)
(***************************************************************************)
\* the result r is the float n/1000
IsMilli(r, n) == r.ok /\ r.val[1].num * 1000 = n * r.val[1].den

\* what a call gives for the content read (None: the file could not be
\* opened or read)
ParseOutcome(text, r) ==
    /\ text = None => r = Err
    /\ text # None =>
          /\ ~Contains(text[1], <<"Y", "E", "S">>) => r = Err
          /\ ~Contains(text[1], <<"t", "=">>) => r = Err
          /\ \A n \in MilliDegrees :
                text[1] = ReportOf(<<"Y", "E", "S">>, NumText(n)) => IsMilli(r, n)
          /\ text[1] = ReportOf(<<"Y", "E", "S">>, <<"+", "5">>) => IsMilli(r, 5)
          /\ text[1] = ReportOf(<<"Y", "E", "S">>, <<"0", "0", "7">>) => IsMilli(r, 7)
          /\ text[1] = ReportOf(<<"Y", "E", "S">>, <<"-", "0", "4", "0">>) => IsMilli(r, -40)
          /\ \A v \in UnparsableValues :
                text[1] = ReportOf(<<"Y", "E", "S">>, v) => r = Err

\* C12 (thermometer parse outcomes): the result of a thermometer read is
\* N/1000 for a content with "YES" and "t=N", N an integer of thousandths
\* ("t=23456" gives 23.456), and a failure for a content without "YES",
\* for one with "YES" and no "t=", for a file that could not be opened and
\* for a value after "t=" that is no number.
C12_ParseOutcomes ==
    [][/\ pc = "ds1" => (ds1' # None /\ ParseOutcome(content, ds1'[1]))
       /\ pc = "ds2" => (ds2' # None /\ ParseOutcome(content, ds2'[1]))]_vars

\* the first thermometer has given -1.25 for "t=-1250", the second 23.456
\* for "t=23456"
C12_Witness ==
    /\ pc = "build"
    /\ ds1 = Some(Ok([num |-> -1250, den |-> 1000]))
    /\ ds2 = Some(Ok([num |-> 23456, den |-> 1000]))


(***************************************************************************)
(* Properties of the data flow of one iteration.                           *)
(***************************************************************************)
\* the reading the compensation gives for what the device dv delivers
ReadingOf(dv) ==
    [d1 |-> dv.adc1, d2 |-> dv.adc2,
     temperature |-> [num |-> Compensation(dv.adc1, dv.adc2, dv.prom).temp, den |-> 100],
     pressure |-> [num |-> Compensation(dv.adc1, dv.adc2, dv.prom).press, den |-> 100]]

\* the ms5611 object of a serialized record
JsonMs5611(json) == json[1][2]
JsonOfReading(m) ==
    << <<"d1", m.d1>>, <<"d2", m.d2>>, <<"temperature", m.temperature>>,
       <<"pressure", m.pressure>> >>

\* the pieces appended to the log in this iteration
Appended == SubSeq(Content(file), Len(Content(fileAtStart)) + 1, Len(Content(file)))

\* C13 (no cross-cycle caching): the locals of the compensation and the
\* reading returned are those the compensation gives for the six
\* calibration words and the two conversions of the device as it is in
\* this iteration; the reading stays what it is until the iteration's
\* pause, and the record, the text serialized and the text logged in the
\* iteration carry it; an iteration starts with no calibration word,
\* conversion or reading kept from the one before.
C13_NoCaching ==
    /\ [][pc = "compensate" =>
             calc' = Some(Compensation(dev.adc1, dev.adc2, dev.prom))]_vars
    /\ [][pc = "return_ms" => ms5611_data' = Some(ReadingOf(dev))]_vars
    /\ [][pc # "sleep" =>
             /\ dev' = dev
             /\ ms5611_data # None => ms5611_data' = ms5611_data]_vars
    /\ [](sensor_data # None =>
             ms5611_data # None /\ sensor_data[1].ms5611 = ms5611_data[1])
    /\ [](json_data # None =>
             /\ ms5611_data # None
             /\ JsonMs5611(json_data[1]) = JsonOfReading(ms5611_data[1]))
    /\ [](\A i \in 1..Len(Appended) :
             (Appended[i].kind = "json") =>
                 /\ ms5611_data # None
                 /\ JsonMs5611(Appended[i].body[1]) = JsonOfReading(ms5611_data[1]))
    /\ [](pc = "with_bus" =>
             /\ c = << >> /\ d1 = None /\ d2 = None /\ calc = None
             /\ ms5611_data = None /\ sensor_data = None /\ i2c = None)

\* the second iteration has read a device whose calibration words and
\* conversions all differ from those of the first, whose record is in the log
C13_Witness ==
    /\ cycle = 2 /\ ms5611_data # None
    /\ ms5611_data[1] = ReadingOf([prom |-> <<65535, 65535, 65535, 65535, 65535, 65535>>,
                                   adc1 |-> 16777215, adc2 |-> 0])
    /\ Len(Content(file)) >= 2
    /\ Content(file)[Len(Content(file)) - 1].kind = "json"
    /\ JsonMs5611(Content(file)[Len(Content(file)) - 1].body[1])
          = JsonOfReading(ReadingOf([prom |-> CalExample, adc1 |-> 9085466,
                                     adc2 |-> 8569150]))

(***************************************************************************)
(* Properties of the bus handle.                                           *)
(***************************************************************************)
OpenedOk(trace) == SelectSeq(trace, LAMBDA e : e.op = "open" /\ e.ok)
AfterAddrPcs == (BusPcs \ {"with_bus", "set_addr"}) \cup {"compensate", "return_ms"}
OutsidePcs == {"with_bus", "ds1_file", "ds1", "ds2_file", "ds2", "build", "log_open",
               "log_serialize", "log_write", "log_return", "main_err", "sleep"}

\* C14 (bus handle): a handle is open only between the opening of the bus
\* in read_and_calculate_ms5611 and that function's return; once the open
\* succeeded it is a handle on bus 1 and, from the first command on, it is
\* addressed to 0x77; it is closed when the function returns, with Ok or
\* with the error of any bus call; none is open during the thermometer
\* reads, the log append or the pause; a handle is opened only while none
\* is open, once in an iteration.
C14_BusHandle ==
    /\ [](pc = "set_addr" => i2c = Some([bus |-> 1, addr |-> None]))
    /\ [](pc \in AfterAddrPcs => i2c = Some([bus |-> 1, addr |-> Some(119)]))
    /\ [](pc \in OutsidePcs => i2c = None)
    /\ [](pc \in {"set_addr"} \cup AfterAddrPcs \cup OutsidePcs)
    /\ [](Len(OpenedOk(ops)) <= 1)
    /\ [](i2c # None => Len(OpenedOk(ops)) = 1)
    /\ [][(i2c = None /\ i2c' # None) => pc = "with_bus"]_vars
    /\ [][(pc \in BusPcs \cup {"return_ms"} /\ pc' \in {"main_err", "ds1_file"}) =>
             (i2c' = None /\ Len(OpenedOk(ops')) = Len(OpenedOk(ops)))]_vars

\* the second iteration opened the bus again after the first one had logged
\* its record, a command then failed and the handle is closed
C14_Witness ==
    /\ cycle = 2 /\ nLogged = 1 /\ pc = "main_err" /\ i2c = None
    /\ Len(OpenedOk(ops)) = 1 /\ Len(ops) > 2 /\ ~ops[Len(ops)].ok

(***************************************************************************)
(* Properties of a failed log write.                                       *)
(***************************************************************************)
JsonPieces(s) == SelectSeq(s, LAMBDA e : e.kind = "json")
RecordOfCycle ==
    [ms5611 |-> ms5611_data[1], ds18b20_1 |-> ds18b20_1_temp[1],
     ds18b20_2 |-> ds18b20_2_temp[1]]

\* C15 (log write failure): when log_data_to_json returned an error, from
\* the open, the serialization or the append, main prints the error, the
\* record is gone, the iteration counts no logged record and goes to the
\* pause without writing to the file again; the failed call keeps neither
\* the file open nor the serialized text; an iteration starts with no
\* record, text or result kept from the one before, and what an iteration
\* appends is at most one record text, that of its own record.
C15_LogWriteFailure ==
    /\ [][(pc = "log_return" /\ log_res = Some(Err)) =>
             /\ errs' = errs \cup {"JSON"}
             /\ sensor_data' = None
             /\ pc' = "sleep"
             /\ nLogged' = nLogged
             /\ file' = file]_vars
    /\ [](log_res = Some(Err) => (pc \in {"log_return", "sleep"} /\ ~fh /\ json_data = None))
    /\ []((pc = "sleep" /\ log_res = Some(Err)) => (sensor_data = None /\ "JSON" \in errs))
    /\ [](pc = "with_bus" =>
             (sensor_data = None /\ json_data = None /\ log_res = None /\ ~fh
              /\ file = fileAtStart))
    /\ [](Len(JsonPieces(Appended)) <= 1)
    /\ [](\A i \in 1..Len(Appended) :
             (Appended[i].kind = "json") =>
                 (res = "ok" /\ Appended[i].body = Some(to_string(RecordOfCycle))))

\* the first iteration's append failed part-way and left a fragment; the
\* second iteration has logged its own record after it, once
C15_Witness ==
    /\ cycle = 2 /\ pc = "sleep" /\ nLogged = 1 /\ log_res = Some(Ok("unit"))
    /\ \E i \in 1..Len(Content(fileAtStart)) : Content(fileAtStart)[i].kind = "part"
    /\ Len(JsonPieces(Appended)) = 1

(***************************************************************************)
(* Properties of the raw conversion values.                                *)
(***************************************************************************)
IsByte(x) == x \in 0..255
JsonField(json, k) == JsonMs5611(json)[k][2]

\* C16 (raw conversion values): the value bound to d1, and to d2, is
\* b0*65536 + b1*256 + b2 for the three bytes b0, b1, b2 (each in 0..255)
\* the read put in the buffer, which are the bytes of the conversion result
\* the device delivered; D1 and D2 lie in 0..2^24-1; the compensation is
\* computed from these two values, the reading returned carries them as
\* its d1 and d2, and so do the record built and the text logged in the
\* iteration.
C16_RawConversion ==
    /\ [][(pc = "d1_read" /\ d1' # None) =>
             /\ \A k \in 1..3 : IsByte(buf'[k])
             /\ d1'[1] = buf'[1] * 65536 + buf'[2] * 256 + buf'[3]
             /\ d1'[1] = dev.adc1]_vars
    /\ [][(pc = "d2_read" /\ d2' # None) =>
             /\ \A k \in 1..3 : IsByte(buf'[k])
             /\ d2'[1] = buf'[1] * 65536 + buf'[2] * 256 + buf'[3]
             /\ d2'[1] = dev.adc2
             /\ d1' = d1]_vars
    /\ [](d1 # None => d1[1] \in 0..16777215)
    /\ [](d2 # None => d2[1] \in 0..16777215)
    /\ [][(pc = "compensate" /\ calc' # None) =>
             (calc'[1] = Compensation(d1[1], d2[1], c) /\ d1' = d1 /\ d2' = d2)]_vars
    /\ [][pc = "return_ms" =>
             (ms5611_data'[1].d1 = d1[1] /\ ms5611_data'[1].d2 = d2[1])]_vars
    /\ [](ms5611_data # None =>
             (ms5611_data[1].d1 = dev.adc1 /\ ms5611_data[1].d2 = dev.adc2))
    /\ [](sensor_data # None =>
             (sensor_data[1].ms5611.d1 = dev.adc1 /\ sensor_data[1].ms5611.d2 = dev.adc2))
    /\ [](\A i \in 1..Len(Appended) :
             (Appended[i].kind = "json") =>
                 /\ JsonField(Appended[i].body[1], 1) = dev.adc1
                 /\ JsonField(Appended[i].body[1], 2) = dev.adc2)

\* a record is logged whose d1 came from the bytes A5 5A FF and whose d2
\* from the bytes 5A FF A5
C16_Witness ==
    /\ pc = "sleep" /\ nLogged = 1
    /\ Len(JsonPieces(Appended)) = 1
    /\ JsonField(JsonPieces(Appended)[1].body[1], 1) = 10836735
    /\ JsonField(JsonPieces(Appended)[1].body[1], 2) = 5963685

(***************************************************************************)
(* Properties of the calibration read's bus operations.                    *)
(***************************************************************************)
IsCalWrite(e) == e.op = "write" /\ e.arg \in {162, 164, 166, 168, 170, 172}
IsSettle(e) == e.op = "sleep" /\ e.arg >= 10
IsRead2(e) == e.op = "read" /\ e.arg = 2

\* C17 (calibration hand-shake): in the operations of an iteration, a
\* successful write of a calibration address (one byte) is followed
\* directly by a delay of at least 10 ms and that by a read of exactly 2
\* bytes; a read of 2 bytes comes only as the third of such a group; a
\* failed write of a calibration address is the last operation of the
\* iteration, so neither the delay nor the read follows it.
C17_CalibrationHandshake ==
    /\ \A i \in 1..Len(ops) :
          IsCalWrite(ops[i]) =>
             /\ ops[i].arg \in 0..255
             /\ ops[i].ok =>
                   /\ i = Len(ops) => pc = "cal_delay"
                   /\ i + 1 <= Len(ops) => IsSettle(ops[i + 1])
                   /\ i + 1 = Len(ops) => pc = "cal_read"
                   /\ i + 2 <= Len(ops) => IsRead2(ops[i + 2])
             /\ ~ops[i].ok =>
                   /\ i = Len(ops)
                   /\ pc \in {"main_err", "sleep"}
    /\ \A i \in 1..Len(ops) :
          IsRead2(ops[i]) =>
             /\ i > 2
             /\ IsSettle(ops[i - 1])
             /\ IsCalWrite(ops[i - 2]) /\ ops[i - 2].ok
    /\ pc = "cal_delay" => (ops # << >> /\ IsCalWrite(ops[Len(ops)]) /\ ops[Len(ops)].ok)
    /\ pc = "cal_read" => (lastSleep >= 10 /\ IsSettle(ops[Len(ops)]))

\* two words were read, each by its three operations, and the write of the
\* third address failed: it is the last operation
C17_Witness ==
    /\ pc = "main_err" /\ Len(ops) = 17
    /\ IsCalWrite(ops[17]) /\ ~ops[17].ok /\ ops[17].arg = 166
    /\ IsRead2(ops[13]) /\ IsRead2(ops[16]) /\ ops[16].ok

(***************************************************************************)
(* Properties of the order of the bus operations.                          *)
(***************************************************************************)
\* the operations of an acquisition in which nothing fails, as
\* <<operation, argument>>
BusOrder ==
    << <<"open", 1>>, <<"addr", 119>>,
       <<"write", 72>>, <<"sleep", 50>>, <<"write", 0>>, <<"read", 3>>,
       <<"write", 88>>, <<"sleep", 50>>, <<"write", 0>>, <<"read", 3>>,
       <<"write", 162>>, <<"sleep", 10>>, <<"read", 2>>,
       <<"write", 164>>, <<"sleep", 10>>, <<"read", 2>>,
       <<"write", 166>>, <<"sleep", 10>>, <<"read", 2>>,
       <<"write", 168>>, <<"sleep", 10>>, <<"read", 2>>,
       <<"write", 170>>, <<"sleep", 10>>, <<"read", 2>>,
       <<"write", 172>>, <<"sleep", 10>>, <<"read", 2>> >>

Transactions(trace) == SelectSeq(trace, LAMBDA e : e.op = "read" /\ e.ok)

\* C18 (fixed bus order): the operations of an iteration are an initial
\* part of one fixed sequence - the pressure conversion (trigger 0x48,
\* delay, ADC read command, 3-byte read), then the temperature conversion
\* (trigger 0x58, ...), then the calibration words at 0xA2, 0xA4, 0xA6,
\* 0xA8, 0xAA, 0xAC in this order - in which only the last operation can
\* have failed; so D1 is read before the temperature conversion is
\* triggered and both are read before the first calibration address is
\* written; the compensation starts, and has a result, only when all eight
\* reads (two conversions, six words) have succeeded.
C18_FixedBusOrder ==
    /\ Len(ops) <= Len(BusOrder)
    /\ \A i \in 1..Len(ops) :
          /\ <<ops[i].op, ops[i].arg>> = BusOrder[i]
          /\ i < Len(ops) => ops[i].ok
    /\ \A i \in 1..Len(ops) :
          IsWrite(ops[i], 88) => Len(Transactions(SubSeq(ops, 1, i))) = 1
    /\ \A i \in 1..Len(ops) :
          IsCalWrite(ops[i]) => Len(Transactions(SubSeq(ops, 1, i))) >= 2
    /\ \A i, j \in 1..Len(ops) :
          (i < j /\ IsCalWrite(ops[i]) /\ IsCalWrite(ops[j])) => ops[i].arg < ops[j].arg
    /\ (pc \in {"compensate", "return_ms"} \/ calc # None \/ res = "ok") =>
          /\ Len(ops) = 28
          /\ Len(Transactions(ops)) = 8
          /\ \A i \in 1..Len(ops) : ops[i].ok
    /\ pc = "compensate" => (d1 # None /\ d2 # None /\ Len(c) = 6)

\* the compensation is about to start: all 28 operations, the eight reads
\* among them, have been done in the order given
C18_Witness ==
    /\ pc = "compensate" /\ Len(ops) = 28 /\ Len(Transactions(ops)) = 8
    /\ ops[7].arg = 88 /\ ops[26].arg = 172

(***************************************************************************)
(* Properties of the order of the thermometer reads.                       *)
(***************************************************************************)
Ds1Pcs == {"ds1_file", "ds1"}
Ds2Pcs == {"ds2_file", "ds2"}
LogPcs == {"build", "log_open", "log_serialize", "log_write", "log_return"}

\* C19 (thermometers after the acquisition): while the acquisition of the
\* iteration has not succeeded, no thermometer file is read and no
\* thermometer result exists; the thermometer reads are reached only from
\* the successful return of the acquisition, the first before the second:
\* the second has a result only if the first has one; a result is set at
\* the thermometer's own read and then stays until the pause, and each read
\* is entered from one place only, so each happens once; the record is
\* built, and the log written, only with both results, and whenever the
\* file differs from what it was at the start of the iteration both exist.
C19_ThermometerOrder ==
    /\ [](res # "ok" =>
             (ds1 = None /\ ds2 = None /\ content = None
              /\ ds18b20_1_temp = None /\ ds18b20_2_temp = None
              /\ pc \notin Ds1Pcs \cup Ds2Pcs \cup LogPcs))
    /\ [](pc \in Ds1Pcs => (ds1 = None /\ ds2 = None /\ file = fileAtStart))
    /\ [](pc \in Ds2Pcs => (ds1 # None /\ ds2 = None /\ file = fileAtStart))
    /\ [](ds2 # None => ds1 # None)
    /\ []((pc \in LogPcs \/ file # fileAtStart) => (ds1 # None /\ ds2 # None))
    /\ [][ds1' # ds1 => ((pc = "ds1" /\ ds1 = None) \/ pc = "sleep")]_vars
    /\ [][ds2' # ds2 => ((pc = "ds2" /\ ds2 = None) \/ pc = "sleep")]_vars
    /\ [][content' # content => pc \in Ds1Pcs \cup Ds2Pcs]_vars
    /\ [][pc' = "ds1_file" => pc = "return_ms"]_vars
    /\ [][pc' = "ds1" => pc = "ds1_file"]_vars
    /\ [][pc' = "ds2_file" => pc = "ds1"]_vars
    /\ [][pc' = "ds2" => pc = "ds2_file"]_vars
    /\ [][pc' = "build" => pc = "ds2"]_vars

\* in the second iteration both thermometers have been read, the first
\* without success, and the log is about to be opened
C19_Witness ==
    /\ cycle = 2 /\ pc = "log_open" /\ res = "ok"
    /\ ds1 # None /\ ds2 # None /\ ~ds1[1].ok /\ ds2[1].ok
    /\ file = fileAtStart

====
